---- MODULE Spec2Model ----
(***************************************************************************)
(* The instruction parsers of sic: the prototype parser (Parser::next,     *)
(* prototype), the cli parser (create_image_ops_cli, take_n) and the       *)
(* script parser (create_image_ops_script).  Tokens are strings; a parser  *)
(* is a cursor over the token list plus the instructions decoded so far.   *)
(***************************************************************************)
EXTENDS Integers, Sequences, FiniteSets, TLC

\* ------------------------------------------------------------------ bounds
\* Longest token list given to prototype / create_image_ops_cli.
MaxLen == 4
\* Most statements in a script given to create_image_ops_script.
MaxStmts == 3

\* ------------------------------------------------------------ str helpers
\* str::starts_with
StartsWith(s, p) == Len(s) >= Len(p) /\ SubSeq(s, 1, Len(p)) = p

\* The character (a one-character string) at 1-based index i.
CharAt(s, i) == SubSeq(s, i, i)

\* str::split_at(2).1 : what follows the first two bytes.
split_at_2(s) == SubSeq(s, 3, Len(s))

\* End of text, U+0003: `(0x03 as char).to_string()`.
StopMark_mark == ""

\* ----------------------------------------------------------------- values
\* A typed argument value.  Numbers are exact decimals num/den (den a power
\* of ten, no trailing zero in the fraction), so "1" and "1.0" are equal.
Value(t, num, den, s) == [t |-> t, num |-> num, den |-> den, s |-> s]

ParseOk(v) == [ok |-> TRUE, v |-> v]
ParseErr(e) == [ok |-> FALSE, e |-> e]

Digits == "0123456789"
IsDigit(c) == \E i \in 1..10 : CharAt(Digits, i) = c
DigitVal(c) == CHOOSE d \in 0..9 : CharAt(Digits, d + 1) = c
AllDigits(s) == \A i \in 1..Len(s) : IsDigit(CharAt(s, i))

RECURSIVE DigitsValue(_, _)
DigitsValue(s, acc) ==
    IF s = "" THEN acc ELSE DigitsValue(Tail(s), acc * 10 + DigitVal(Head(s)))

RECURSIVE Pow10(_)
Pow10(k) == IF k = 0 THEN 1 ELSE 10 * Pow10(k - 1)

\* The fraction digits without their trailing zeros.
RECURSIVE StripZeros(_)
StripZeros(s) ==
    IF s # "" /\ CharAt(s, Len(s)) = "0" THEN StripZeros(SubSeq(s, 1, Len(s) - 1)) ELSE s

\* Index of the first '.' of s, 0 when there is none.
DotIndex(s) ==
    IF \E i \in 1..Len(s) : CharAt(s, i) = "."
    THEN CHOOSE i \in 1..Len(s) : CharAt(s, i) = "." /\ \A j \in 1..(i - 1) : CharAt(s, j) # "."
    ELSE 0

\* Decimal digit strings without leading zeros, compared as numbers.
RECURSIVE StripLeadingZeros(_)
StripLeadingZeros(s) ==
    IF Len(s) > 1 /\ Head(s) = "0" THEN StripLeadingZeros(Tail(s)) ELSE s

RECURSIVE DigitsLeq(_, _)
DigitsLeq(a, b) ==
    IF a = "" THEN TRUE
    ELSE IF DigitVal(Head(a)) # DigitVal(Head(b)) THEN DigitVal(Head(a)) < DigitVal(Head(b))
    ELSE DigitsLeq(Tail(a), Tail(b))

\* Is the number written by the digits at most the one written by max?
FitsIn(digits, max) ==
    LET d == StripLeadingZeros(digits)
    IN  Len(d) < Len(max) \/ (Len(d) = Len(max) /\ DigitsLeq(d, max))

U32_MAX == "4294967295"
I32_MAX == "2147483647"
I32_MIN_MAGNITUDE == "2147483648"

\* The sign of a number token and what follows the sign.
IsNeg(s) == StartsWith(s, "-")
Unsign(s) == IF StartsWith(s, "-") \/ StartsWith(s, "+") THEN Tail(s) ELSE s
Signed(neg, n) == IF neg THEN 0 - n ELSE n

\* Unsigned 32-bit: an optional '+', then digits; a '-' is no digit.
u32_of(body) ==
    IF body = "" \/ ~AllDigits(body) \/ ~FitsIn(body, U32_MAX) THEN ParseErr("ParseUIntError")
    ELSE ParseOk(Value("u32", DigitsValue(body, 0), 1, ""))

parse_u32_sign_dropped(s) == u32_of(IF StartsWith(s, "+") \/ StartsWith(s, "-") THEN Tail(s) ELSE s)

parse_u32(s) == u32_of(IF StartsWith(s, "+") THEN Tail(s) ELSE s)

\* Signed 32-bit: an optional '+' or '-', then digits.
i32_of(neg, body) ==
    IF body = "" \/ ~AllDigits(body) \/ ~FitsIn(body, IF neg THEN I32_MIN_MAGNITUDE ELSE I32_MAX)
    THEN ParseErr("ParseIntError")
    ELSE ParseOk(Value("i32", Signed(neg, DigitsValue(body, 0)), 1, ""))

parse_i32(s) == i32_of(IsNeg(s), Unsign(s))

\* Float: an optional sign, digits with at most one '.', at least one digit.
\* (The token sets below hold no exponent, "inf" or "nan" literal.)
f32_value(neg, int, frac) ==
    Value("f32", Signed(neg, DigitsValue(int, 0) * Pow10(Len(frac)) + DigitsValue(frac, 0)),
          Pow10(Len(frac)), "")

f32_of(neg, int, frac) ==
    IF int \o frac = "" \/ ~AllDigits(int \o frac) THEN ParseErr("ParseFloatError")
    ELSE ParseOk(f32_value(neg, int, StripZeros(frac)))

f32_split(neg, body, dot) ==
    IF dot = 0 THEN f32_of(neg, body, "")
    ELSE f32_of(neg, SubSeq(body, 1, dot - 1), SubSeq(body, dot + 1, Len(body)))

f32_unsigned(neg, body) == f32_split(neg, body, DotIndex(body))

parse_f32(s) == f32_unsigned(IsNeg(s), Unsign(s))

parse_typed_float_errors(t, s) ==
    IF (CASE t = "f32" -> parse_f32(s) [] t = "i32" -> parse_i32(s) [] t = "u32" -> parse_u32(s)).ok
    THEN (CASE t = "f32" -> parse_f32(s) [] t = "i32" -> parse_i32(s) [] t = "u32" -> parse_u32(s))
    ELSE ParseErr("ParseFloatError")

parse_typed(t, s) ==
    CASE t = "f32" -> parse_f32(s)
      [] t = "i32" -> parse_i32(s)
      [] t = "u32" -> parse_u32(s)

\* ------------------------------------------------------- cli_parse: errors
\* ParserError::Unexpected(String)
Unexpected(token) == [kind |-> "Unexpected", payload |-> token, n |-> 0]
\* ParserError::PPTE(ParsePerTypeError)
PPTE(which) == [kind |-> "PPTE", payload |-> which, n |-> 0]

\* Core::Operation(Op), Core::SetModifier(usize, Modifier), Core::Skip
Core_Operation(name, args) == [kind |-> "Operation", name |-> name, args |-> args, idx |-> 0]
Core_SetModifier(idx, name, args) == [kind |-> "SetModifier", name |-> name, args |-> args, idx |-> idx]
Core_Skip == [kind |-> "Skip", name |-> "", args |-> <<>>, idx |-> 0]

\* Option<Result<Core, ParserError>>
None == [some |-> FALSE]
SomeOk(v) == [some |-> TRUE, ok |-> TRUE, v |-> v]
SomeErr(e) == [some |-> TRUE, ok |-> FALSE, e |-> e]

\* What a step of a parser leaves: the cursor (tokens taken from the source
\* so far) and the item it yields.
Step(pos, item) == [pos |-> pos, item |-> item]

\* ------------------------------------------------------ cli_parse: parse_to
\* ParseFromIter::parse for the argument types of one operation: the next
\* Len(types) tokens are taken from the cursor; too few left is the argument
\* count error, otherwise the tokens are coerced in declaration order and the
\* first failing one decides the error.
CoerceNext(types, toks, j) ==
    /\ ~parse_typed(types[j], toks[j]).ok
    /\ \A i \in 1..(j - 1) : parse_typed(types[i], toks[i]).ok

CoerceAll(types, toks, acc) ==
    IF \A j \in 1..Len(types) : parse_typed(types[j], toks[j]).ok
    THEN [ok |-> TRUE, v |-> acc \o [j \in 1..Len(types) |-> parse_typed(types[j], toks[j]).v]]
    ELSE [ok |-> FALSE,
          e |-> parse_typed(types[CHOOSE j \in 1..Len(types) : CoerceNext(types, toks, j)],
                            toks[CHOOSE j \in 1..Len(types) : CoerceNext(types, toks, j)]).e]

\* The coerced arguments with the cursor after them.
Coerced(pos, r) ==
    IF r.ok THEN [pos |-> pos, ok |-> TRUE, v |-> r.v] ELSE [pos |-> pos, ok |-> FALSE, e |-> r.e]

ParseFromIter_parse(input, pos, types) ==
    IF Len(input) - pos < Len(types)
    THEN [pos |-> Len(input), ok |-> FALSE, e |-> "ArgumentCountMismatch"]
    ELSE Coerced(pos + Len(types),
                 CoerceAll(types, SubSeq(input, pos + 1, pos + Len(types)), <<>>))

\* ------------------------------------------------------ cli_parse: core::op
\* Op::variants(): the kebab-case names of the variants of enum Op.
Op_variants ==
    { "blur", "brighten", "contrast", "crop", "filter3x3", "flip-horizontal",
      "flip-vertical", "grayscale", "hue-rotate", "invert", "resize",
      "rotate90", "rotate180", "rotate270", "unsharpen" }

Op_is_some(input) == input \in Op_variants

\* The arm of Op::from_str for an operation that takes arguments.
Op_result(name, r) ==
    Step(r.pos, IF r.ok THEN SomeOk(Core_Operation(name, r.v)) ELSE SomeErr(PPTE(r.e)))

Op_parse_arm(input, pos, name, types) == Op_result(name, ParseFromIter_parse(input, pos, types))

\* The arm of Op::from_str for an operation without arguments.
Op_unit_arm_unhandled(pos, name) == Step(pos, None)

Op_unit_arm_taking_one(pos, name) == Step(pos + 1, SomeOk(Core_Operation(name, <<>>)))

Op_unit_arm(pos, name) == Step(pos, SomeOk(Core_Operation(name, <<>>)))

F32x9 == <<"f32", "f32", "f32", "f32", "f32", "f32", "f32", "f32", "f32">>

\* Op::from_str(iter, input), mapped to Core::Operation by Parser::next.
Op_from_str(input, pos, name) ==
    CASE name = "blur" -> Op_parse_arm(input, pos, name, <<"f32">>)
      [] name = "brighten" -> Op_parse_arm(input, pos, name, <<"i32">>)
      [] name = "contrast" -> Op_parse_arm(input, pos, name, <<"f32">>)
      [] name = "crop" -> Op_parse_arm(input, pos, name, <<"u32", "u32", "u32", "u32">>)
      [] name = "filter3x3" -> Op_parse_arm(input, pos, name, F32x9)
      [] name = "flip-horizontal" -> Op_unit_arm(pos, name)
      [] name = "flip-vertical" -> Op_unit_arm(pos, name)
      [] name = "grayscale" -> Op_unit_arm(pos, name)
      [] name = "hue-rotate" -> Op_parse_arm(input, pos, name, <<"i32">>)
      [] name = "invert" -> Op_unit_arm(pos, name)
      [] name = "resize" -> Op_parse_arm(input, pos, name, <<"u32", "u32">>)
      [] name = "rotate90" -> Op_unit_arm(pos, name)
      [] name = "rotate180" -> Op_unit_arm(pos, name)
      [] name = "rotate270" -> Op_unit_arm(pos, name)
      [] name = "unsharpen" -> Op_parse_arm(input, pos, name, <<"f32", "i32">>)
      [] OTHER -> Step(pos, None)

\* ------------------------------------------------- cli_parse: core::modifier
PRESERVE_ASPECT_RATIO == "preserve-aspect-ratio"
SAMPLING_FILTER == "sampling-filter"

Modifier_modifier_start(input) == StartsWith(input, "set")

\* Modifier::consume_args: the modifier keyword, then its argument.
Modifier_consume_args(input, pos) ==
    IF pos >= Len(input) THEN [pos |-> pos, ok |-> FALSE, e |-> PPTE("InvalidModifierSyntax")]
    ELSE LET which == input[pos + 1]
         IN  CASE which = PRESERVE_ASPECT_RATIO ->
                    [pos |-> pos + 1, ok |-> TRUE, name |-> "PreserveAspectRatio", args |-> <<>>]
               [] which = SAMPLING_FILTER ->
                    IF pos + 1 >= Len(input)
                    THEN [pos |-> pos + 1, ok |-> FALSE, e |-> PPTE("ModifierArgumentExpected")]
                    ELSE [pos |-> pos + 2, ok |-> TRUE, name |-> "SamplingFilter",
                          args |-> <<Value("str", 0, 1, input[pos + 2])>>]
               [] OTHER -> [pos |-> pos + 1, ok |-> FALSE, e |-> PPTE("InvalidModifierSyntax")]

\* Modifier::modifier_for: the target operation, then consume_args.
Modifier_result_indexed(m) ==
    Step(m.pos, IF m.ok THEN SomeOk(Core_SetModifier(m.pos, m.name, m.args)) ELSE SomeErr(m.e))

Modifier_result(m) ==
    Step(m.pos, IF m.ok THEN SomeOk(Core_SetModifier(0, m.name, m.args)) ELSE SomeErr(m.e))

Modifier_modifier_for_any_target(input, pos) ==
    IF pos >= Len(input) THEN Step(pos, SomeErr(PPTE("InvalidModifierSyntax")))
    ELSE Modifier_result(Modifier_consume_args(input, pos + 1))

Modifier_modifier_for(input, pos) ==
    IF pos >= Len(input) THEN Step(pos, SomeErr(PPTE("InvalidModifierSyntax")))
    ELSE IF Op_is_some(input[pos + 1])
         THEN Modifier_result(Modifier_consume_args(input, pos + 1))
         ELSE Step(pos + 1, SomeErr(PPTE("InvalidOperationForModifier")))

\* ------------------------------------------------------- cli_parse: Parser
is_long_arg(arg) == StartsWith(arg, "--") /\ Len(arg) > 2

is_short_arg(arg) == StartsWith(arg, "-") /\ Len(arg) = 2

is_cli_arg(arg) == is_long_arg(arg) \/ is_short_arg(arg)

\* Parser::has_arg_prefix: does the peeked token start with `--`?
has_arg_prefix_first_only(input, pos) ==
    IF pos < Len(input) THEN pos = 0 /\ is_long_arg(input[pos + 1]) ELSE FALSE

has_arg_prefix(input, pos) == IF pos < Len(input) THEN is_long_arg(input[pos + 1]) ELSE FALSE

\* Parser::skip_non_image_op_cli_arguments: drop tokens up to the next token
\* that is a cli argument, or to the end.
RECURSIVE skip_to_cli_arg(_, _)
skip_to_cli_arg(input, pos) ==
    IF pos < Len(input) /\ ~is_cli_arg(input[pos + 1]) THEN skip_to_cli_arg(input, pos + 1) ELSE pos

skip_non_image_op_cli_arguments_one_token(input, pos) ==
    Step(IF pos < Len(input) THEN pos + 1 ELSE pos, SomeOk(Core_Skip))

skip_non_image_op_cli_arguments(input, pos) == Step(skip_to_cli_arg(input, pos), SomeOk(Core_Skip))

\* The token Parser::next matches on: the consumed token, or the stop mark
\* when the source is exhausted, without its `--` when it has one.
next_token(input, pos) ==
    LET token == IF pos < Len(input) THEN input[pos + 1] ELSE StopMark_mark
    IN  IF has_arg_prefix(input, pos) THEN split_at_2(token) ELSE token

\* The cursor after `self.source.next()`.
after_next_stuck(input, pos) == pos

after_next(input, pos) == IF pos < Len(input) THEN pos + 1 ELSE pos

\* The arm of the match in Parser::next that takes the token.
next_arm(token) ==
    CASE token = StopMark_mark -> "stop"
      [] Op_is_some(token) -> "op"
      [] Modifier_modifier_start(token) -> "modifier"
      [] is_cli_arg(token) -> "skip"
      [] OTHER -> "unexpected"

\* The match of Parser::next on the token, the cursor being after it.
next_match(input, p, token, arm) ==
    CASE arm = "stop" -> Step(p, None)
      [] arm = "op" -> Op_from_str(input, p, token)
      [] arm = "modifier" -> Modifier_modifier_for(input, p)
      [] arm = "skip" -> skip_non_image_op_cli_arguments(input, p)
      [] OTHER -> Step(p, SomeErr(Unexpected(token)))

next_on(input, p, token) == next_match(input, p, token, next_arm(token))

\* Parser::next
Parser_next(input, pos) == next_on(input, after_next(input, pos), next_token(input, pos))

\* --------------------------------------------- sic_cli_ops: OperationId
\* OperationId::VARIANTS: the names the cli and script parsers know.
OperationId_VARIANTS ==
    Op_variants \cup { "diff", "preserve-aspect-ratio", "sampling-filter" }

\* OperationId::takes_number_of_arguments
OperationId_takes_number_of_arguments(operation) ==
    CASE operation \in { "flip-horizontal", "flip-vertical", "grayscale", "invert",
                         "rotate90", "rotate180", "rotate270" } -> 0
      [] operation \in { "blur", "brighten", "contrast", "diff", "hue-rotate",
                         "preserve-aspect-ratio", "sampling-filter" } -> 1
      [] operation \in { "resize", "unsharpen" } -> 2
      [] operation = "crop" -> 4
      [] operation = "filter3x3" -> 9

\* The numeric argument types of an operation, in declaration order.
OperationId_types(operation) ==
    CASE operation \in { "blur", "contrast" } -> <<"f32">>
      [] operation \in { "brighten", "hue-rotate" } -> <<"i32">>
      [] operation = "crop" -> <<"u32", "u32", "u32", "u32">>
      [] operation = "filter3x3" -> F32x9
      [] operation = "resize" -> <<"u32", "u32">>
      [] operation = "unsharpen" -> <<"f32", "i32">>
      [] OTHER -> <<>>

\* SicCliOpsError
ExpectedArgumentForImageOperation(name, n) ==
    [kind |-> "ExpectedArgumentForImageOperation", payload |-> name, n |-> n]
InvalidScriptError(stmt) == [kind |-> "InvalidScriptError", payload |-> stmt, n |-> 0]
CliOpsError(kind) == [kind |-> kind, payload |-> "", n |-> 0]

\* Instr::Operation(ImgOp), Instr::EnvAdd(EnvItem)
Instr_Operation(name, args) == [kind |-> "Operation", name |-> name, args |-> args, idx |-> 0]
Instr_EnvAdd(name, args) == [kind |-> "EnvAdd", name |-> name, args |-> args, idx |-> 0]

SamplingFilters == { "nearest", "triangle", "catmullrom", "gaussian", "lanczos3" }

\* A path argument: with SIC_SCRIPT_WORKAROUND_UNQUOTE set, one pair of
\* enclosing quotes is removed.
Unquote(unquote, s) ==
    IF unquote /\ Len(s) >= 2
       /\ \E q \in { "\"", "'" } : CharAt(s, 1) = q /\ CharAt(s, Len(s)) = q
    THEN SubSeq(s, 2, Len(s) - 1)
    ELSE s

\* OperationId::create_instruction(inputs): the typed instruction made from
\* the argument tokens of one operation.
Instr_result(operation, r) ==
    IF r.ok THEN [ok |-> TRUE, v |-> Instr_Operation(operation, r.v)]
    ELSE [ok |-> FALSE, e |-> CliOpsError(r.e)]

OperationId_create_instruction(operation, inputs, unquote) ==
    IF Len(inputs) # OperationId_takes_number_of_arguments(operation)
    THEN [ok |-> FALSE, e |-> CliOpsError("ArgumentCountMismatch")]
    ELSE CASE operation = "diff" ->
                [ok |-> TRUE,
                 v |-> Instr_Operation(operation, <<Value("str", 0, 1, Unquote(unquote, inputs[1]))>>)]
           [] operation = "preserve-aspect-ratio" ->
                IF inputs[1] \in { "true", "false" }
                THEN [ok |-> TRUE,
                      v |-> Instr_EnvAdd("PreserveAspectRatio",
                               <<Value("bool", IF inputs[1] = "true" THEN 1 ELSE 0, 1, "")>>)]
                ELSE [ok |-> FALSE, e |-> CliOpsError("InvalidModifierSyntax")]
           [] operation = "sampling-filter" ->
                IF inputs[1] \in SamplingFilters
                THEN [ok |-> TRUE,
                      v |-> Instr_EnvAdd("CustomSamplingFilter", <<Value("str", 0, 1, inputs[1])>>)]
                ELSE [ok |-> FALSE, e |-> CliOpsError("InvalidModifierSyntax")]
           [] OTHER -> Instr_result(operation, CoerceAll(OperationId_types(operation), inputs, <<>>))

\* OperationId::try_from_name
OperationId_try_from_name(name) ==
    IF name \in OperationId_VARIANTS THEN [ok |-> TRUE, v |-> name]
    ELSE [ok |-> FALSE, e |-> CliOpsError("UnknownOperationError")]

\* ------------------------------------------------------ sic_cli_ops: lib.rs
Min(a, b) == IF a < b THEN a ELSE b

\* take_n: `iter.take(n).collect()`, then the length check.
take_n_args_longer_only(pos, operation, n, args) ==
    IF Len(args) > n
    THEN [pos |-> pos + Len(args), ok |-> FALSE,
          e |-> ExpectedArgumentForImageOperation(operation, Len(args))]
    ELSE [pos |-> pos + Len(args), ok |-> TRUE, v |-> args]

take_n_args_taking_one_more(pos, operation, n, args) ==
    IF Len(args) # n
    THEN [pos |-> pos + Len(args), ok |-> FALSE,
          e |-> ExpectedArgumentForImageOperation(operation, Len(args))]
    ELSE [pos |-> pos + Len(args) + 1, ok |-> TRUE, v |-> args]

take_n_args(pos, operation, n, args) ==
    IF Len(args) # n
    THEN [pos |-> pos + Len(args), ok |-> FALSE,
          e |-> ExpectedArgumentForImageOperation(operation, Len(args))]
    ELSE [pos |-> pos + Len(args), ok |-> TRUE, v |-> args]

RECURSIVE args_before_flag(_, _, _)
args_before_flag(input, pos, n) ==
    IF n = 0 \/ pos >= Len(input) THEN 0
    ELSE IF StartsWith(input[pos + 1], "--") /\ split_at_2(input[pos + 1]) \in OperationId_VARIANTS
    THEN 0
    ELSE 1 + args_before_flag(input, pos + 1, n - 1)

take_n_to_next_flag(input, pos, operation) ==
    take_n_args(pos, operation, OperationId_takes_number_of_arguments(operation),
                SubSeq(input, pos + 1,
                       pos + args_before_flag(input, pos,
                                              OperationId_takes_number_of_arguments(operation))))

take_n(input, pos, operation) ==
    take_n_args(pos, operation, OperationId_takes_number_of_arguments(operation),
                SubSeq(input, pos + 1,
                       pos + Min(OperationId_takes_number_of_arguments(operation), Len(input) - pos)))

\* The test of the `if` in the loop of create_image_ops_cli.
cli_is_operation_any_flag(arg) == StartsWith(arg, "--")

cli_is_operation(arg) == StartsWith(arg, "--") /\ split_at_2(arg) \in OperationId_VARIANTS

\* Result<Instr, _> as the item of a step.
ItemOf(instr) == IF instr.ok THEN SomeOk(instr.v) ELSE SomeErr(instr.e)

\* The body of the `if`: try_from_name, take_n, create_instruction, each with `?`.
cli_create(operation, inputs, unquote) ==
    IF ~inputs.ok THEN Step(inputs.pos, SomeErr(inputs.e))
    ELSE Step(inputs.pos, ItemOf(OperationId_create_instruction(operation, inputs.v, unquote)))

cli_take(input, pos, operation, unquote) ==
    IF ~operation.ok THEN Step(pos, SomeErr(operation.e))
    ELSE cli_create(operation.v, take_n(input, pos, operation.v), unquote)

cli_operation(input, pos, arg, unquote) ==
    cli_take(input, pos, OperationId_try_from_name(split_at_2(arg)), unquote)

\* str::split_ascii_whitespace
IsAsciiWhitespace(c) == c \in { " ", "\t", "\n", "\f", "\r" }

RECURSIVE split_ascii_whitespace_from(_, _, _)
split_ascii_whitespace_from(s, word, acc) ==
    IF s = "" THEN (IF word = "" THEN acc ELSE Append(acc, word))
    ELSE IF IsAsciiWhitespace(Head(s))
         THEN split_ascii_whitespace_from(Tail(s), "", IF word = "" THEN acc ELSE Append(acc, word))
         ELSE split_ascii_whitespace_from(Tail(s), word \o Head(s), acc)

split_ascii_whitespace(s) == split_ascii_whitespace_from(s, "", <<>>)

\* The closure given to filter_map in create_image_ops_script, for one statement.
script_components_naming_word(op, components, unquote) ==
    IF components # <<>> /\ OperationId_try_from_name(Head(components)).ok
    THEN ItemOf(OperationId_create_instruction(Head(components), Tail(components), unquote))
    ELSE SomeErr(InvalidScriptError(IF components = <<>> THEN op ELSE Head(components)))

script_components(op, components, unquote) ==
    IF components # <<>> /\ OperationId_try_from_name(Head(components)).ok
    THEN ItemOf(OperationId_create_instruction(Head(components), Tail(components), unquote))
    ELSE SomeErr(InvalidScriptError(op))

script_statement_strict(op, unquote) == script_components(op, split_ascii_whitespace(op), unquote)

script_statement(op, unquote) ==
    IF op = "" THEN None ELSE script_components(op, split_ascii_whitespace(op), unquote)

\* ------------------------------------------------- operations: the script
\* The words of a script text: what stands between whitespace and `;`
\* (the separator is optional between operations).
RECURSIVE script_words_from(_, _, _)
script_words_from(s, word, acc) ==
    IF s = "" THEN (IF word = "" THEN acc ELSE Append(acc, word))
    ELSE IF IsAsciiWhitespace(Head(s)) \/ Head(s) = ";"
         THEN script_words_from(Tail(s), "", IF word = "" THEN acc ELSE Append(acc, word))
         ELSE script_words_from(Tail(s), word \o Head(s), acc)

\* Rule::blur, Rule::flip_horizontal, Rule::flip_vertical, Rule::resize with
\* their unsigned integer texts: the pairs of the operations from word i on,
\* or no parse when a word fits no rule.
RECURSIVE SICParser_pairs(_, _, _)
SICParser_pairs(words, i, acc) ==
    IF i > Len(words) THEN [ok |-> TRUE, v |-> acc]
    ELSE CASE words[i] \in { "flip_horizontal", "flip_vertical" } ->
                SICParser_pairs(words, i + 1, Append(acc, [rule |-> words[i], inner |-> <<>>]))
           [] words[i] = "blur" /\ i + 1 <= Len(words) /\ AllDigits(words[i + 1]) ->
                SICParser_pairs(words, i + 2,
                                Append(acc, [rule |-> "blur", inner |-> <<words[i + 1]>>]))
           [] /\ words[i] = "resize"
              /\ i + 2 <= Len(words)
              /\ AllDigits(words[i + 1])
              /\ AllDigits(words[i + 2]) ->
                SICParser_pairs(words, i + 3,
                                Append(acc, [rule |-> "resize",
                                             inner |-> <<words[i + 1], words[i + 2]>>]))
           [] OTHER -> [ok |-> FALSE, v |-> <<>>]

\* SICParser::parse(PARSER_RULE, script)
SICParser_parse(script) == SICParser_pairs(script_words_from(script, "", <<>>), 1, <<>>)

\* `it.parse::<u32>().map_err(|e| e.to_string())` on the digits of a pair.
StringError(msg) == [kind |-> "String", payload |-> msg, n |-> 0]

Operation(name, args) == [kind |-> "Operation", name |-> name, args |-> args, idx |-> 0]

\* parse_image_operations: each pair to its Operation, the first Err ends it.
parse_image_operations(pairs) ==
    IF \A k \in 1..Len(pairs) : \A j \in 1..Len(pairs[k].inner) : parse_u32(pairs[k].inner[j]).ok
    THEN [ok |-> TRUE,
          v |-> [k \in 1..Len(pairs) |->
                    Operation(pairs[k].rule,
                              [j \in 1..Len(pairs[k].inner) |-> parse_u32(pairs[k].inner[j]).v])]]
    ELSE [ok |-> FALSE, e |-> StringError("number too large to fit in target type")]

\* ------------------------------------------------------------------ state
VARIABLES
    entry,   \* the entry point called: "prototype", "cli", "script", "apply"
             \* (parse_and_apply_script) or "run"
    input,   \* its argument: the token list, the list of statements, the
             \* script text (as a list of one string), or the options of run
    pos,     \* the cursor: items taken from the source iterator so far
    out,     \* the instructions collected so far (the Vec being built)
    ret,     \* the value returned (NoRet until there is one)
    pc,      \* "start", "run", "collected", "done" (returned) or "panicked";
             \* in run the statement reached: "load", "ignite", "writer",
             \* "quality", "format", "export"
    mode,    \* Parser.mode
    env,     \* is SIC_SCRIPT_WORKAROUND_UNQUOTE set in the process environment?
    run,     \* combi_test: the "without" (dashes) or the "with" run
    first,   \* combi_test: what the "without" run returned
    disp,    \* the positions of input at which a parse step dispatched
    other,   \* a second create_image_ops_script running in the same process:
             \* "idle" (not started), "running" (variable set) or "done"
    file     \* the file at the output path of run: what it was when run was
             \* called and what it is now ("absent", "old", "empty", "written")

vars == <<entry, input, pos, out, ret, pc, mode, env, run, first, disp, other, file>>

OutputFile(was, is) == [was |-> was, is |-> is]

NoRet == [tag |-> "NoRet"]
Ok(program) == [tag |-> "Ok", program |-> program]
Err(error) == [tag |-> "Err", error |-> error]

\* ----------------------------------------------------------------- inputs
SeqsUpTo(S, n) == UNION { [1..k -> S] : k \in 0..n }

\* Tokens of the free token lists: flags with and without `--`, of arity
\* 1, 2 and 0, argument tokens, a foreign flag, and the End-of-text character.
Tokens ==
    { "--blur", "blur", "--resize", "--flip-horizontal", "1", "-1", "xyz",
      "--output", StopMark_mark }

\* Argument tokens: well typed for every, for the signed, for the float and
\* for no numeric type.
ArgTokens == { "1", "-1", "1.5", "-1.5", "x" }

\* Argument lists of length n in which at most one token differs from the rest.
ArgLists(n) ==
    IF n <= 0 THEN { <<>> }
    ELSE { [i \in 1..n |-> IF i = k THEN b ELSE a] : a \in ArgTokens, b \in ArgTokens, k \in 1..n }

\* One operation flag followed by as many arguments as it takes, or one less.
OpInputs(names) ==
    UNION { { <<"--" \o name>> \o args :
                args \in ArgLists(OperationId_takes_number_of_arguments(name))
                         \cup ArgLists(OperationId_takes_number_of_arguments(name) - 1) } :
            name \in names }

\* Tokens of modifier declarations: `set <operation> <modifier> <argument>`.
ModifierTokens ==
    { "set", "resize", "preserve-aspect-ratio", "sampling-filter", "catmullrom", "tri", "true",
      "settings" }

\* A well-formed declaration for each operation, alone, after an operation
\* or after another declaration, and followed by an operation or not.
DeclarationInputs ==
    { pre \o <<"set", target, "preserve-aspect-ratio">> \o post :
        pre \in { <<>>, <<"invert">>, <<"set", "blur", "sampling-filter", "tri">> },
        target \in Op_variants,
        post \in { <<>>, <<"invert">> } }

\* A foreign short flag, its arguments, and what stands at the boundary.
SkipInputs ==
    { pre \o <<"-o">> \o span \o rest :
        pre \in { <<>>, <<"invert">> },
        span \in SeqsUpTo({ "out.png", "1" }, 2),
        rest \in { <<>>, <<"--invert">>, <<"-v", "--invert">>, <<"-1", "blur", "1">> } }

\* Each operation, bare and with `--`, with the arguments it takes and an
\* operation after them.
FollowedInputs(names) ==
    { <<pre \o name>> \o [i \in 1..OperationId_takes_number_of_arguments(name) |-> "1"]
        \o <<"invert">> :
        name \in names, pre \in { "", "--" } }

TokenLists(names) ==
    SeqsUpTo(Tokens, MaxLen) \cup OpInputs(names) \cup SeqsUpTo(ModifierTokens, MaxLen)
        \cup DeclarationInputs \cup SkipInputs \cup FollowedInputs(names)

Statements ==
    { "", "blur 1", "blur x", "flipv", "flipv 1", "invert", "resize 1 -1", "diff \"/my/path\"",
      "diff \"/my dir/a.png\"" }

Scripts == SeqsUpTo(Statements, MaxStmts)

\* Script texts given to parse_and_apply_script.
ScriptTexts ==
    { "blur 1;", "flip_horizontal; resize 1 1", "flip_horizontal flip_vertical; blur 15",
      "blur 4294967296;", "flipv", "blur x;", "resize 1;" }

\* The options of run: the input image, the image operations program, the
\* output path ("" for none: stdout), the JPEG quality and the forced output
\* format ("" for none).
RunOptions ==
    { <<image, program, output, quality, format>> :
        image \in { "in.png", "broken.png" },
        program \in { "blur 1", "crop 9 9 0 0" },
        output \in { "", "out.jpg", "out.xyz", "/no/dir/out.jpg" },
        quality \in { "80", "0" },
        format \in { "", "jpg", "abc" } }

\* ------------------------------------------------------------------- Init
\* Parser::new for prototype; the first line of the other entry points.
\* Before the call: nothing is parsed yet and the variable is not set.
Init ==
    /\ entry = "none"
    /\ input = <<>>
    /\ pos = 0
    /\ out = <<>>
    /\ ret = NoRet
    /\ pc = "idle"
    /\ mode = "NoParser"
    /\ env = FALSE
    /\ run = "without"
    /\ first = NoRet
    /\ disp = {}
    /\ other = "idle"
    /\ file = OutputFile("absent", "absent")

\* The inputs an entry point is called with.
Inputs(e) ==
    CASE e = "prototype" -> TokenLists(Op_variants)
      [] e = "cli" -> TokenLists(OperationId_VARIANTS)
      [] e = "script" -> Scripts
      [] e = "apply" -> { <<text>> : text \in ScriptTexts }
      [] e = "run" -> RunOptions

\* The call of prototype (which makes the Parser: Parser::new),
\* create_image_ops_cli, create_image_ops_script, parse_and_apply_script or
\* run with its argument; run finds the output file there or not.
Call ==
    /\ pc = "idle"
    /\ \E e \in { "prototype", "cli", "script", "apply", "run" } :
          /\ entry' = e
          /\ input' \in Inputs(e)
          /\ pc' = CASE e = "script" -> "start" [] e = "run" -> "load" [] OTHER -> "run"
          /\ mode' = IF e = "prototype" THEN "Arg" ELSE "NoParser"
          /\ file' \in IF e = "run" THEN { OutputFile(was, was) : was \in { "absent", "old" } }
                        ELSE { file }
    /\ UNCHANGED <<pos, out, ret, env, run, first, disp, other>>

\* -------------------------------------------------------------- prototype
\* `collect::<Result<Vec<_>, ParserError>>()` taking one item from the parser:
\* None ends the collection with Ok, an Err ends it with that Err and drops
\* the Vec, an Ok is pushed.
Collect_prepending(item) ==
    IF ~item.some THEN /\ ret' = Ok(out)
                       /\ out' = <<>>
                       /\ pc' = "done"
    ELSE IF item.ok THEN /\ out' = <<item.v>> \o out
                         /\ UNCHANGED <<ret, pc>>
    ELSE /\ ret' = Err(item.e)
         /\ out' = <<>>
         /\ pc' = "done"

Collect_past_errors(item) ==
    IF ~item.some THEN /\ ret' = Ok(out)
                       /\ out' = <<>>
                       /\ pc' = "done"
    ELSE IF item.ok THEN /\ out' = Append(out, item.v)
                         /\ UNCHANGED <<ret, pc>>
    ELSE UNCHANGED <<ret, out, pc>>

Collect(item) ==
    IF ~item.some THEN /\ ret' = Ok(out)
                       /\ out' = <<>>
                       /\ pc' = "done"
    ELSE IF item.ok THEN /\ out' = Append(out, item.v)
                         /\ UNCHANGED <<ret, pc>>
    ELSE /\ ret' = Err(item.e)
         /\ out' = <<>>
         /\ pc' = "done"

\* One call of Parser::next by the collect of prototype.
Collected(r) ==
    /\ pos' = r.pos
    /\ Collect(r.item)

ParserStep ==
    /\ Collected(Parser_next(input, pos))
    /\ disp' = IF pos < Len(input) THEN disp \cup { pos + 1 } ELSE disp
    /\ UNCHANGED <<file, other, entry, input, mode, env, run, first>>

\* Does the next call of Parser::next take this arm of its match?
AtArm(arm) ==
    /\ entry = "prototype"
    /\ pc = "run"
    /\ next_arm(next_token(input, pos)) = arm

\* `v if v == self.stop_mark.as_ref() => None`
NextStop ==
    /\ AtArm("stop")
    /\ ParserStep

\* `op if Op::is_some(op)`
NextOperation ==
    /\ AtArm("op")
    /\ ParserStep

\* `modifier if Modifier::modifier_start(modifier)`
NextModifier ==
    /\ AtArm("modifier")
    /\ ParserStep

\* `arg if is_cli_arg(arg)`
NextSkip ==
    /\ AtArm("skip")
    /\ ParserStep

\* `elsy => Some(Err(ParserError::Unexpected(elsy.to_string())))`
NextUnexpected ==
    /\ AtArm("unexpected")
    /\ ParserStep

\* with_dashes_body: `--` put before tokens of the input.
with_dashes(tokens, S) == [i \in 1..Len(tokens) |-> IF i \in S THEN "--" \o tokens[i] ELSE tokens[i]]

\* combi_test: after the run without dashes, the same input is parsed again
\* with `--` before operation names of it.
WithDashesRun ==
    /\ entry = "prototype"
    /\ pc = "done"
    /\ run = "without"
    /\ \E S \in SUBSET { i \in disp : Op_is_some(input[i]) } :
          /\ S # {}
          /\ input' = with_dashes(input, S)
    /\ first' = ret
    /\ run' = "with"
    /\ pos' = 0
    /\ out' = <<>>
    /\ ret' = NoRet
    /\ pc' = "run"
    /\ disp' = {}
    /\ UNCHANGED <<file, other, entry, mode, env>>

\* ---------------------------------------------------- create_image_ops_cli
\* `while let Some(arg) = iter.next()` with a recognised operation flag.
CliPushed(r) ==
    /\ pos' = r.pos
    /\ IF r.item.ok
       THEN /\ out' = Append(out, r.item.v)
            /\ UNCHANGED <<ret, pc>>
       ELSE /\ ret' = Err(r.item.e)
            /\ out' = <<>>
            /\ pc' = "done"

CliOperation ==
    /\ entry = "cli"
    /\ pc = "run"
    /\ pos < Len(input)
    /\ cli_is_operation(input[pos + 1])
    /\ CliPushed(cli_operation(input, pos + 1, input[pos + 1], env))
    /\ disp' = disp \cup { pos + 1 }
    /\ UNCHANGED <<file, other, entry, input, mode, env, run, first>>

\* ... with any other token: skipped.
CliSkip ==
    /\ entry = "cli"
    /\ pc = "run"
    /\ pos < Len(input)
    /\ ~cli_is_operation(input[pos + 1])
    /\ pos' = pos + 1
    /\ disp' = disp \cup { pos + 1 }
    /\ UNCHANGED <<file, other, entry, input, out, ret, pc, mode, env, run, first>>

\* ... at the end of the iterator: `Ok(ast)`.
CliReturn ==
    /\ entry = "cli"
    /\ pc = "run"
    /\ pos = Len(input)
    /\ ret' = Ok(out)
    /\ out' = <<>>
    /\ pc' = "done"
    /\ UNCHANGED <<file, other, entry, input, pos, mode, env, run, first, disp>>

\* ------------------------------------------------- create_image_ops_script
\* std::env::set_var("SIC_SCRIPT_WORKAROUND_UNQUOTE", "1")
ScriptSetVar ==
    /\ entry = "script"
    /\ pc = "start"
    /\ env' = TRUE
    /\ pc' = "run"
    /\ UNCHANGED <<file, other, entry, input, pos, out, ret, mode, run, first, disp>>

\* The collect pulling one statement through the filter_map closure.
ScriptCollect(item) ==
    IF ~item.some THEN UNCHANGED <<out, ret, pc>>
    ELSE IF item.ok THEN /\ out' = Append(out, item.v)
                         /\ UNCHANGED <<ret, pc>>
    ELSE /\ ret' = Err(item.e)
         /\ out' = <<>>
         /\ pc' = "collected"

ScriptStatement ==
    /\ entry = "script"
    /\ pc = "run"
    /\ pos < Len(input)
    /\ pos' = pos + 1
    /\ ScriptCollect(script_statement(input[pos + 1], env))
    /\ disp' = disp \cup { pos + 1 }
    /\ UNCHANGED <<file, other, entry, input, mode, env, run, first>>

\* The collect at the end of the statements: `ops` is Ok.
ScriptCollected ==
    /\ entry = "script"
    /\ pc = "run"
    /\ pos = Len(input)
    /\ ret' = Ok(out)
    /\ out' = <<>>
    /\ pc' = "collected"
    /\ UNCHANGED <<file, other, entry, input, pos, mode, env, run, first, disp>>

\* std::env::remove_var("SIC_SCRIPT_WORKAROUND_UNQUOTE"); ops
ScriptRemoveVar_on_ok_only ==
    /\ entry = "script"
    /\ pc = "collected"
    /\ env' = IF ret.tag = "Err" THEN env ELSE FALSE
    /\ pc' = "done"
    /\ UNCHANGED <<file, other, entry, input, pos, out, ret, mode, run, first, disp>>

ScriptRemoveVar ==
    /\ entry = "script"
    /\ pc = "collected"
    /\ env' = FALSE
    /\ pc' = "done"
    /\ UNCHANGED <<file, other, entry, input, pos, out, ret, mode, run, first, disp>>

\* -------------------------------------------------- parse_and_apply_script
\* `parsed_script.unwrap_or_else(|e| panic!(...))` on a text the grammar
\* does not accept: the thread panics, nothing is returned.
ApplyPanic ==
    /\ entry = "apply"
    /\ pc = "run"
    /\ ~SICParser_parse(input[1]).ok
    /\ pc' = "panicked"
    /\ UNCHANGED <<file, other, entry, input, pos, out, ret, mode, env, run, first, disp>>

\* The match on `operations`: the operations are applied, or the Err returned.
ApplyReturned(operations) ==
    /\ ret' = IF operations.ok THEN Ok(operations.v) ELSE Err(operations.e)
    /\ pc' = "done"

ApplyParsed ==
    /\ entry = "apply"
    /\ pc = "run"
    /\ SICParser_parse(input[1]).ok
    /\ ApplyReturned(parse_image_operations(SICParser_parse(input[1]).v))
    /\ pos' = Len(input)
    /\ UNCHANGED <<file, other, entry, input, out, mode, env, run, first, disp>>

\* -------------------------------------------------------------------- run
\* What the functions of sic_io and of the image engine make of the options.
load_image_ok(image) == image # "broken.png"
ignite_ok(program) == program # "crop 9 9 0 0"
File_create_ok(output) == ~StartsWith(output, "/no/dir/")
JPEGQuality_try_from_ok(quality) == quality # "0"
KnownFormats == { "bmp", "gif", "ico", "jpg", "jpeg", "png", "pbm", "pgm", "ppm", "pam" }
by_identifier_ok(format) == format \in KnownFormats
by_extension_ok(output) ==
    \E ext \in KnownFormats :
        Len(output) > Len(ext) /\ SubSeq(output, Len(output) - Len(ext), Len(output)) = "." \o ext

\* A statement of run with `?`: on Err run returns it, else it goes on.
RunQuestionMark(ok, msg, then) ==
    IF ok THEN /\ pc' = then
               /\ UNCHANGED ret
    ELSE /\ pc' = "done"
         /\ ret' = Err(StringError(msg))

\* `mk_reader(matches)?` and `load_image(&mut reader, ..)?`
RunLoad ==
    /\ entry = "run"
    /\ pc = "load"
    /\ RunQuestionMark(load_image_ok(input[1]), "load", "ignite")
    /\ UNCHANGED <<file, other, entry, input, pos, out, mode, env, run, first, disp>>

\* `image_engine.ignite(&options.image_operations_program).map_err(..)?`
RunIgnite ==
    /\ entry = "run"
    /\ pc = "ignite"
    /\ RunQuestionMark(ignite_ok(input[2]), "ignite", "writer")
    /\ UNCHANGED <<file, other, entry, input, pos, out, mode, env, run, first, disp>>

\* mk_export_writer: File::create(out) makes the file, or truncates the one
\* that is there; without an output path the writer is the stdout.
mk_export_writer(output, f) ==
    IF output # "" /\ File_create_ok(output) THEN OutputFile(f.was, "empty") ELSE f

RunMkExportWriter ==
    /\ entry = "run"
    /\ pc = "writer"
    /\ file' = mk_export_writer(input[3], file)
    /\ RunQuestionMark(input[3] = "" \/ File_create_ok(input[3]), "create", "quality")
    /\ UNCHANGED <<other, entry, input, pos, out, mode, env, run, first, disp>>

\* `JPEGQuality::try_from(options.encoding_settings.jpeg_quality)` and `quality?`
RunJpegQuality ==
    /\ entry = "run"
    /\ pc = "quality"
    /\ RunQuestionMark(JPEGQuality_try_from_ok(input[4]), "quality", "format")
    /\ UNCHANGED <<file, other, entry, input, pos, out, mode, env, run, first, disp>>

\* The match on forced_output_format and output: by_identifier, by_extension
\* or BMP, then `?`.
encoding_format_ok(output, format) ==
    IF format # "" THEN by_identifier_ok(format)
    ELSE IF output # "" THEN by_extension_ok(output)
    ELSE TRUE

RunEncodingFormat ==
    /\ entry = "run"
    /\ pc = "format"
    /\ RunQuestionMark(encoding_format_ok(input[3], input[5]), "format", "export")
    /\ UNCHANGED <<file, other, entry, input, pos, out, mode, env, run, first, disp>>

\* `export(buffer, &mut export_writer, encoding_format, ..)`: the image is
\* written to the writer.
RunExport ==
    /\ entry = "run"
    /\ pc = "export"
    /\ file' = IF input[3] # "" THEN OutputFile(file.was, "written") ELSE file
    /\ ret' = Ok(<<>>)
    /\ pc' = "done"
    /\ UNCHANGED <<other, entry, input, pos, out, mode, env, run, first, disp>>

\* ------------------------------------- a concurrent create_image_ops_script
\* The variable is one per process: another thread running
\* create_image_ops_script sets it when it starts and removes it when it is
\* done, whatever the parse of this thread is doing.  Only functions that
\* read the variable are run against it.
OtherSetVar ==
    /\ entry \in { "cli", "script" }
    /\ other = "idle"
    /\ env' = TRUE
    /\ other' = "running"
    /\ UNCHANGED <<file, entry, input, pos, out, ret, pc, mode, run, first, disp>>

OtherRemoveVar ==
    /\ other = "running"
    /\ env' = FALSE
    /\ other' = "done"
    /\ UNCHANGED <<file, entry, input, pos, out, ret, pc, mode, run, first, disp>>

\* ------------------------------------------------------------------- Spec
Next ==
    \/ Call
    \/ NextStop
    \/ NextOperation
    \/ NextModifier
    \/ NextSkip
    \/ NextUnexpected
    \/ WithDashesRun
    \/ CliOperation
    \/ CliSkip
    \/ CliReturn
    \/ ScriptSetVar
    \/ ScriptStatement
    \/ ScriptCollected
    \/ ScriptRemoveVar
    \/ ApplyPanic
    \/ ApplyParsed
    \/ RunLoad
    \/ RunIgnite
    \/ RunMkExportWriter
    \/ RunJpegQuality
    \/ RunEncodingFormat
    \/ RunExport
    \/ OtherSetVar
    \/ OtherRemoveVar

Spec == Init /\ [][Next]_vars

\* The functions are sequential code that runs to its return: a step that can
\* be taken is taken.
\* prototype alone, on the token lists over a few tokens that reach every
\* arm of Parser::next.
TermTokens == { "blur", "1", "-1", "set" }

CallPrototype ==
    /\ pc = "idle"
    /\ entry' = "prototype"
    /\ input' \in SeqsUpTo(TermTokens, MaxLen)
    /\ pc' = "run"
    /\ mode' = "Arg"
    /\ UNCHANGED <<pos, out, ret, env, run, first, disp, other, file>>

PrototypeNext ==
    \/ CallPrototype
    \/ NextStop
    \/ NextOperation
    \/ NextModifier
    \/ NextSkip
    \/ NextUnexpected
    \/ WithDashesRun

FairSpec == Init /\ [][PrototypeNext]_vars /\ WF_vars(PrototypeNext)

\* ------------------------------------------------------- what is claimed
Max(S) == CHOOSE m \in S : \A x \in S : x <= m

Parsing == entry \in { "prototype", "cli" }

\* The operation a token names at a dispatch position: prototype takes the
\* name bare or after `--`, create_image_ops_cli only after `--`.
NamedBy(e, tok) ==
    IF StartsWith(tok, "--") THEN SubSeq(tok, 3, Len(tok))
    ELSE IF e = "prototype" THEN tok ELSE ""

\* A valid stream: operations of Op, each followed by as many well-typed
\* argument tokens as it takes, and nothing else.
RECURSIVE ValidFrom(_, _, _)
ValidFrom(e, toks, i) ==
    IF i > Len(toks) THEN TRUE
    ELSE /\ NamedBy(e, toks[i]) \in Op_variants
         /\ LET types == OperationId_types(NamedBy(e, toks[i]))
            IN  /\ i + Len(types) <= Len(toks)
                /\ \A j \in 1..Len(types) : parse_typed(types[j], toks[i + j]).ok
                /\ ValidFrom(e, toks, i + Len(types) + 1)

\* Its operations, in the order of the input.
RECURSIVE OperationsFrom(_, _, _)
OperationsFrom(e, toks, i) ==
    IF i > Len(toks) THEN <<>>
    ELSE LET types == OperationId_types(NamedBy(e, toks[i]))
         IN  <<[kind |-> "Operation", name |-> NamedBy(e, toks[i]), idx |-> 0,
                args |-> [j \in 1..Len(types) |-> parse_typed(types[j], toks[i + j]).v]]>>
             \o OperationsFrom(e, toks, i + Len(types) + 1)

\* C1: parsing is order-preserving.  When the input is a valid stream of K
\* operations, prototype and create_image_ops_cli return a program of exactly
\* K instructions, the i-th being the i-th operation of the input with its
\* arguments: nothing is reordered, merged or dropped.
C1_OrderPreserved ==
    (Parsing /\ pc = "done" /\ ValidFrom(entry, input, 1))
        => ret = Ok(OperationsFrom(entry, input, 1))

\* A valid stream in which the same operation is given twice stays two instructions.
C1_Witness ==
    /\ entry = "prototype"
    /\ pc = "done"
    /\ ValidFrom(entry, input, 1)
    /\ ret.tag = "Ok"
    /\ Len(ret.program) = 2
    /\ ret.program[1] = ret.program[2]

\* The step of the entry point that dispatches on position d of the input.
StepAt(d) ==
    CASE entry = "prototype" -> Parser_next(input, d - 1)
      [] entry = "cli" ->
            IF cli_is_operation(input[d]) THEN cli_operation(input, d, input[d], env)
            ELSE Step(d, SomeOk(Core_Skip))
      [] entry = "script" -> Step(d, script_statement(input[d], TRUE))

FailsAt(d) == StepAt(d).item.some /\ ~StepAt(d).item.ok

\* C2: when an instruction fails to parse, the result is that one error, the
\* first in input order, and no program: what was decoded before it is
\* dropped, and nothing after the failure is parsed (the failing step is the
\* last one, the cursor stays where it left it).  For all three entry points.
C2_FirstErrorOnly ==
    \A d \in disp :
        FailsAt(d) => /\ ret = Err(StepAt(d).item.e)
                      /\ d = Max(disp)
                      /\ out = <<>>
                      /\ pos = StepAt(d).pos

\* A failure after an instruction was decoded and before the end of the input.
C2_Witness ==
    /\ ret.tag = "Err"
    /\ Cardinality(disp) >= 2
    /\ pos < Len(input)
    /\ FailsAt(Max(disp))

KnownFlag(tok) == StartsWith(tok, "--") /\ SubSeq(tok, 3, Len(tok)) \in OperationId_VARIANTS

Arity(tok) == OperationId_takes_number_of_arguments(SubSeq(tok, 3, Len(tok)))

WellTyped(types, toks) ==
    /\ Len(toks) = Len(types)
    /\ \A j \in 1..Len(types) : parse_typed(types[j], toks[j]).ok

TypedValues(types, toks) == [j \in 1..Len(types) |-> parse_typed(types[j], toks[j]).v]

\* C4: an operation of arity N followed by exactly N well-typed argument
\* tokens parses to exactly one instruction, of that operation's variant,
\* holding the parsed values; followed by only N - 1 argument tokens (N >= 1)
\* it fails with the argument-count error, ExpectedArgumentForImageOperation
\* in create_image_ops_cli, naming the operation and the N - 1 tokens found.
C4_ArityRespected ==
    (entry = "cli" /\ pc = "done" /\ Len(input) >= 1 /\ KnownFlag(input[1])) =>
        LET name == SubSeq(input[1], 3, Len(input[1]))
            given == Tail(input)
        IN  /\ (name \in Op_variants /\ WellTyped(OperationId_types(name), given))
                    => ret = Ok(<<Instr_Operation(name, TypedValues(OperationId_types(name), given))>>)
            /\ (Arity(input[1]) >= 1 /\ Len(given) = Arity(input[1]) - 1)
                    => ret = Err(ExpectedArgumentForImageOperation(name, Len(given)))

\* `--crop` followed by three of its four arguments.
C4_Witness ==
    /\ entry = "cli"
    /\ pc = "done"
    /\ Len(input) = 4
    /\ input[1] = "--crop"
    /\ \A i \in 2..4 : parse_typed("u32", input[i]).ok
    /\ ret.tag = "Err"

\* Fewer than N argument tokens stand between the flag at d and the next
\* recognised operation flag, or the end of the input.
Starved(d) ==
    \E k \in 1..Arity(input[d]) : d + k > Len(input) \/ KnownFlag(input[d + k])

AtFlag(d) == entry = "cli" /\ d \in disp /\ KnownFlag(input[d])

NumberErrors == { "ParseFloatError", "ParseIntError", "ParseUIntError" }

ZeroArityOps ==
    { "flip-horizontal", "flip-vertical", "grayscale", "invert",
      "rotate90", "rotate180", "rotate270" }

\* C6: an operation of arity zero consumes no argument token: its step takes
\* the name only and yields the operation, and the token that follows is the
\* one the next step dispatches on.
C6_ZeroArityTakesNothing ==
    (Parsing /\ pc = "done") =>
        \A d \in disp :
            NamedBy(entry, input[d]) \in ZeroArityOps =>
                /\ StepAt(d).pos = d
                /\ StepAt(d).item = SomeOk(Instr_Operation(NamedBy(entry, input[d]), <<>>))
                /\ d < Len(input) => d + 1 \in disp

\* `invert` followed by an operation with an argument: both were decoded.
C6_Witness ==
    /\ entry = "prototype"
    /\ pc = "done"
    /\ Len(input) >= 3
    /\ NamedBy(entry, input[1]) \in ZeroArityOps
    /\ input[2] = "blur"
    /\ 2 \in disp
    /\ ret.tag = "Ok"
    /\ Len(ret.program) = 2

\* C7: create_image_ops_cli never fails because of a token it does not
\* recognise: a token at a dispatch position that is not `--` and a known
\* operation name is skipped, with no instruction and no error.  Every failure
\* is the failure of a recognised flag, a returned program has one instruction
\* for each recognised flag dispatched on, and an input without a recognised
\* flag gives the empty program.
C7_UnrecognisedSkipped ==
    (entry = "cli" /\ pc = "done") =>
        /\ ret.tag = "Err" => KnownFlag(input[Max(disp)])
        /\ ret.tag = "Ok" =>
              Len(ret.program) = Cardinality({ d \in disp : KnownFlag(input[d]) })
        /\ (\A i \in 1..Len(input) : ~KnownFlag(input[i])) => ret = Ok(<<>>)

\* `--flip-horizontal 1`: the stray argument is skipped.
C7_Witness ==
    /\ entry = "cli"
    /\ pc = "done"
    /\ input = <<"--flip-horizontal", "1">>
    /\ disp = { 1, 2 }
    /\ ret = Ok(<<Instr_Operation("flip-horizontal", <<>>)>>)

\* C8 as stated: when the token Parser::next dispatches on starts with `--`
\* and names no known operation, the step yields Skip, without an error, and
\* the parse goes on with the token after it.
C8_UnknownFlagSkipped ==
    \A d \in disp :
        (/\ entry = "prototype"
         /\ d = Max(disp)
         /\ StartsWith(input[d], "--")
         /\ NamedBy(entry, input[d]) \notin Op_variants)
            => /\ ret = NoRet
               /\ pc = "run"
               /\ out # <<>>
               /\ out[Len(out)] = Core_Skip

\* A token that is no operation name, no start of a modifier and no CLI flag.
PlainToken(tok) ==
    /\ NamedBy("prototype", tok) \notin Op_variants
    /\ ~Modifier_modifier_start(tok)
    /\ ~is_cli_arg(tok)

\* C9 as stated: when the token Parser::next dispatches on is neither a known
\* operation, nor the start of a modifier, nor a CLI flag, the parse fails
\* with the unexpected-token error whose payload is the text of that token.
C9_PlainTokenUnexpected ==
    \A d \in disp :
        (entry = "prototype" /\ d = Max(disp) /\ PlainToken(input[d]))
            => ret = Err(Unexpected(input[d]))

\* C10 as stated: no token of the input equals the stop mark, so the
\* iteration of prototype ends only when the token stream is exhausted: a
\* returned program was made from the whole input.
C10_EndsAtExhaustion ==
    (entry = "prototype" /\ pc = "done" /\ ret.tag = "Ok") => pos = Len(input)

\* C11 as stated: within one parse the mode of the Parser starts as
\* Ambiguous and is set once, by the first token: to Arg when that token
\* carries `--`, to Script otherwise.
C11_ModeSetByFirstToken ==
    entry = "prototype" =>
        /\ (pc = "run" /\ pos = 0) => mode = "Ambiguous"
        /\ disp # {} => mode = IF StartsWith(input[1], "--") THEN "Arg" ELSE "Script"

\* A `set` declaration is dispatched on at position d, as the last step so far.
SetAt(d) ==
    /\ entry = "prototype"
    /\ d \in disp
    /\ d = Max(disp)
    /\ NamedBy(entry, input[d]) = "set"

ModifierKeywords == { "preserve-aspect-ratio", "sampling-filter" }

\* C12: a `set` declaration whose target token is not a known operation name
\* fails with InvalidOperationForModifier; one whose target token or modifier
\* keyword is missing, or whose keyword is neither preserve-aspect-ratio nor
\* sampling-filter, fails with InvalidModifierSyntax; no instruction is
\* emitted in either case.
C12_BadDeclarationFails ==
    \A d \in 1..Len(input) :
        SetAt(d) =>
            /\ d + 1 > Len(input) => ret = Err(PPTE("InvalidModifierSyntax")) /\ out = <<>>
            /\ (d + 1 <= Len(input) /\ input[d + 1] \notin Op_variants)
                  => ret = Err(PPTE("InvalidOperationForModifier")) /\ out = <<>>
            /\ (/\ d + 1 <= Len(input)
                /\ input[d + 1] \in Op_variants
                /\ (d + 2 > Len(input) \/ input[d + 2] \notin ModifierKeywords))
                  => ret = Err(PPTE("InvalidModifierSyntax")) /\ out = <<>>

\* `set resize settings`: a keyword that is no modifier.
C12_Witness ==
    /\ Len(input) = 3
    /\ SetAt(1)
    /\ input[2] \in Op_variants
    /\ input[3] \notin ModifierKeywords
    /\ ret = Err(PPTE("InvalidModifierSyntax"))

\* The declaration at d is `set <operation> <keyword>`.
DeclaresAt(d, keyword) ==
    /\ SetAt(d)
    /\ d + 2 <= Len(input)
    /\ input[d + 1] \in Op_variants
    /\ input[d + 2] = keyword

\* C13 as stated: the preserve-aspect-ratio modifier consumes exactly one
\* following token, which must be `true` or `false`, and the emitted modifier
\* records that boolean; any other token, or none, makes the parse fail.
C13_AspectRatioTakesBoolean ==
    \A d \in 1..Len(input) :
        DeclaresAt(d, "preserve-aspect-ratio") =>
            IF d + 3 <= Len(input) /\ input[d + 3] \in { "true", "false" }
            THEN /\ pos = d + 3
                 /\ ret = NoRet
                 /\ out # <<>>
                 /\ out[Len(out)] =
                       Core_SetModifier(0, "PreserveAspectRatio",
                           <<Value("bool", IF input[d + 3] = "true" THEN 1 ELSE 0, 1, "")>>)
            ELSE ret.tag = "Err"

\* C14 as stated: the sampling-filter modifier consumes exactly one token and
\* succeeds only when it is one of nearest, triangle, catmullrom, gaussian,
\* lanczos3; any other name fails with InvalidModifierSyntax, a missing token
\* with ModifierArgumentExpected.
C14_SamplingFilterNameChecked ==
    \A d \in 1..Len(input) :
        DeclaresAt(d, "sampling-filter") =>
            /\ d + 3 > Len(input) => ret = Err(PPTE("ModifierArgumentExpected"))
            /\ (d + 3 <= Len(input) /\ input[d + 3] \notin SamplingFilters)
                  => ret = Err(PPTE("InvalidModifierSyntax"))
            /\ (d + 3 <= Len(input) /\ input[d + 3] \in SamplingFilters)
                  => /\ pos = d + 3
                     /\ ret = NoRet
                     /\ out # <<>>
                     /\ out[Len(out)] =
                           Core_SetModifier(0, "SamplingFilter", <<Value("str", 0, 1, input[d + 3])>>)

NonEmpty(stmts) == { i \in 1..Len(stmts) : stmts[i] # "" }

\* C15: a script without statements, or with empty statements only, parses
\* to the empty program, not to an error; empty statements between or after
\* real ones add neither instructions nor errors: a returned program has one
\* instruction for each non-empty statement, and an error is always the error
\* of a non-empty statement.
C15_EmptyStatementsIgnored ==
    (entry = "script" /\ pc = "done") =>
        /\ NonEmpty(input) = {} => ret = Ok(<<>>)
        /\ ret.tag = "Ok" => Len(ret.program) = Cardinality(NonEmpty(input))
        /\ ret.tag = "Err" => input[Max(disp)] # ""

\* `blur 1;; blur 1`
C15_Witness ==
    /\ entry = "script"
    /\ pc = "done"
    /\ input = <<"blur 1", "", "blur 1">>
    /\ ret.tag = "Ok"
    /\ Len(ret.program) = 2

\* A statement `diff "<path>"`, the path in double quotes.
QuotedDiff(stmt) ==
    /\ Len(stmt) >= 7
    /\ SubSeq(stmt, 1, 6) = "diff \""
    /\ SubSeq(stmt, Len(stmt), Len(stmt)) = "\""

\* C16 as stated: in a script a quoted argument reaches the operation as one
\* argument, its inner whitespace preserved: `diff "<path>"` gives the diff
\* operation with that path, whatever whitespace the path holds.
C16_QuotedArgumentKeptWhole ==
    \A d \in disp :
        (entry = "script" /\ QuotedDiff(input[d]))
            => script_statement(input[d], TRUE) =
                  SomeOk(Instr_Operation("diff",
                            <<Value("str", 0, 1, SubSeq(input[d], 7, Len(input[d]) - 1))>>))

\* One step of create_image_ops_cli or create_image_ops_script running alone,
\* from cursor p: the script has set the variable itself, the cli function
\* finds it unset.
AloneStep(e, toks, p) ==
    IF e = "script" THEN Step(p + 1, script_statement(toks[p + 1], TRUE))
    ELSE IF cli_is_operation(toks[p + 1]) THEN cli_operation(toks, p + 1, toks[p + 1], FALSE)
    ELSE Step(p + 1, None)

\* What the function returns when it runs alone.
RECURSIVE Alone(_, _, _, _)
AloneNext(e, toks, acc, st) ==
    IF ~st.item.some THEN Alone(e, toks, st.pos, acc)
    ELSE IF st.item.ok THEN Alone(e, toks, st.pos, Append(acc, st.item.v))
    ELSE Err(st.item.e)

Alone(e, toks, p, acc) ==
    IF p >= Len(toks) THEN Ok(acc) ELSE AloneNext(e, toks, acc, AloneStep(e, toks, p))

\* C17 as stated: parses share no mutable state: create_image_ops_cli and
\* create_image_ops_script return the same result interleaved with another
\* parse of the same process as they return alone.
C17_SameResultInterleaved ==
    (entry \in { "cli", "script" } /\ pc = "done") => ret = Alone(entry, input, 0, <<>>)

\* The operations whose arguments are all unsigned.
UnsignedOps == { "crop", "resize" }

\* The parse failed with this kind of number error (ParsePerTypeError in the
\* prototype parser, SicCliOpsError in create_image_ops_cli).
FailedWith(kind) == ret = Err(PPTE(kind)) \/ ret = Err(CliOpsError(kind))

\* C18: a token beginning with `-` in an unsigned argument position (the
\* four coordinates of crop, the two sizes of resize) always makes the parse
\* fail with ParseUIntError; it is never accepted, wrapped or coerced.
C18_NegativeUnsignedFails ==
    Parsing =>
        \A d \in disp :
            (/\ NamedBy(entry, input[d]) \in UnsignedOps
             /\ d + Len(OperationId_types(NamedBy(entry, input[d]))) <= Len(input)
             /\ \E k \in 1..Len(OperationId_types(NamedBy(entry, input[d]))) :
                    StartsWith(input[d + k], "-"))
                => FailedWith("ParseUIntError")

\* crop with `-1` as its fourth coordinate.
C18_Witness ==
    /\ entry = "prototype"
    /\ Len(input) = 5
    /\ NamedBy(entry, input[1]) = "crop"
    /\ \A k \in 2..4 : input[k] = "1"
    /\ input[5] = "-1"
    /\ ret = Err(PPTE("ParseUIntError"))

\* The error kind of a declared argument type.
DeclaredError(t) ==
    CASE t = "f32" -> "ParseFloatError"
      [] t = "i32" -> "ParseIntError"
      [] t = "u32" -> "ParseUIntError"

\* The first argument position of the operation at d whose token cannot be coerced.
FirstBad(d, types) ==
    CHOOSE j \in 1..Len(types) :
        /\ ~parse_typed(types[j], input[d + j]).ok
        /\ \A i \in 1..(j - 1) : parse_typed(types[i], input[d + i]).ok

\* C19: a numeric argument token that cannot be coerced fails the parse with
\* the error kind of the declared type of its position: ParseFloatError for a
\* float, ParseIntError for a signed integer (also for a fractional token such
\* as `-1.5`), ParseUIntError for an unsigned integer.
C19_ErrorOfDeclaredType ==
    Parsing =>
        \A d \in disp :
            LET types == OperationId_types(NamedBy(entry, input[d]))
            IN  (/\ NamedBy(entry, input[d]) \in Op_variants
                 /\ d + Len(types) <= Len(input)
                 /\ \E j \in 1..Len(types) : ~parse_typed(types[j], input[d + j]).ok)
                    => FailedWith(DeclaredError(types[FirstBad(d, types)]))

\* `brighten -1.5`
C19_Witness ==
    /\ entry = "prototype"
    /\ Len(input) = 2
    /\ NamedBy(entry, input[1]) = "brighten"
    /\ input[2] = "-1.5"
    /\ ret = Err(PPTE("ParseIntError"))

\* C20: parsing a finite token list always terminates.  Every call of
\* Parser::next takes at least one token while tokens remain, so there are at
\* most as many such calls as tokens, plus the one that finds the source
\* exhausted, and prototype returns.
C20_Terminates ==
    /\ [][(entry = "prototype" /\ pc = "run" /\ pos < Len(input)) => pos' > pos]_vars
    /\ [](entry = "prototype" => (Cardinality(disp) <= Len(input) /\ pos <= Len(input)))
    /\ <>[](pc = "done")

\* prototype returned after one call for each of MaxLen tokens.
C20_Witness ==
    /\ entry = "prototype"
    /\ pc = "done"
    /\ Len(input) = MaxLen
    /\ pos = Len(input)
    /\ Cardinality(disp) = MaxLen

\* C21 as stated: no input makes a parsing entry point crash.  prototype,
\* create_image_ops_cli, create_image_ops_script and parse_and_apply_script
\* never panic, and what they return is an Ok or an Err.
C21_NeverPanics ==
    /\ pc # "panicked"
    /\ pc = "done" => ret.tag \in { "Ok", "Err" }

\* C22 as stated: once the first token of the parse carried no `--` (here an
\* operation name written bare: the parse is in Script mode), the `--` of
\* later tokens is not stripped: a later token `--blur` is not accepted as
\* the operation blur.
C22_LaterDashesKept ==
    \A d \in disp :
        (/\ entry = "prototype"
         /\ d > 1
         /\ Op_is_some(input[1])
         /\ StartsWith(input[d], "--")
         /\ split_at_2(input[d]) \in Op_variants)
            => ~(/\ StepAt(d).item.some
                 /\ StepAt(d).item.ok
                 /\ StepAt(d).item.v.kind = "Operation")

\* C23: every SetModifier instruction the parser emits carries operation
\* index 0, whatever operation the declaration names and however many
\* operations or modifiers precede it in the token stream.
C23_ModifierIndexZero ==
    entry = "prototype" =>
        /\ \A i \in 1..Len(out) : out[i].kind = "SetModifier" => out[i].idx = 0
        /\ ret.tag = "Ok" =>
              \A i \in 1..Len(ret.program) :
                  ret.program[i].kind = "SetModifier" => ret.program[i].idx = 0

\* Two declarations naming different operations, both in the returned program.
C23_Witness ==
    /\ entry = "prototype"
    /\ pc = "done"
    /\ Len(input) = 7
    /\ input[2] = "blur"
    /\ input[6] = "resize"
    /\ ret.tag = "Ok"
    /\ Len(ret.program) = 2
    /\ \A i \in 1..2 : ret.program[i].kind = "SetModifier" /\ ret.program[i].idx = 0

\* The step of prototype at d takes the skip arm of Parser::next.
SkipsAt(d) ==
    /\ entry = "prototype"
    /\ d \in disp
    /\ next_arm(next_token(input, d - 1)) = "skip"

\* The flag boundary after d: the first later token that is a CLI flag, or
\* the position after the end of the input.
Boundary(d) ==
    IF \E b \in (d + 1)..Len(input) : is_cli_arg(input[b])
    THEN CHOOSE b \in (d + 1)..Len(input) :
            is_cli_arg(input[b]) /\ \A k \in (d + 1)..(b - 1) : ~is_cli_arg(input[k])
    ELSE Len(input) + 1

Skips(program) == { i \in 1..Len(program) : program[i] = Core_Skip }

\* C24: when the parser skips an unrecognised flag, it consumes the tokens
\* that follow only up to the next flag boundary or the end of the input: no
\* token of the span is dispatched on, the boundary token is left in the
\* source and is what the next step dispatches on, and one Skip instruction
\* is emitted for the whole span.
C24_SkipStopsAtBoundary ==
    \A d \in 1..Len(input) :
        SkipsAt(d) =>
            /\ \A k \in (d + 1)..(Boundary(d) - 1) : k \notin disp
            /\ pos >= Boundary(d) - 1
            /\ d = Max(disp) => /\ pos = Boundary(d) - 1
                                /\ ret # NoRet => ret.tag = "Ok" /\ pos = Len(input)
                                /\ ret = NoRet => out # <<>> /\ out[Len(out)] = Core_Skip
            /\ d < Max(disp) => Boundary(d) \in disp
            /\ ret = NoRet => Cardinality(Skips(out)) = Cardinality({ e \in disp : SkipsAt(e) })
            /\ ret.tag = "Ok" =>
                  Cardinality(Skips(ret.program)) = Cardinality({ e \in disp : SkipsAt(e) })

\* `-o out.png 1 --invert`: two tokens skipped, the flag after them decoded.
C24_Witness ==
    /\ entry = "prototype"
    /\ pc = "done"
    /\ input = <<"-o", "out.png", "1", "--invert">>
    /\ disp = { 1, 4 }
    /\ ret = Ok(<<Core_Skip, Core_Operation("invert", <<>>)>>)

\* The step at d constructed the operation its token names.
Constructed(d) ==
    /\ NamedBy(entry, input[d]) \in OperationId_VARIANTS
    /\ StepAt(d).item.some
    /\ StepAt(d).item.ok
    /\ StepAt(d).item.v.kind \in { "Operation", "EnvAdd" }

\* C25: a successful construction of an operation of arity N consumes
\* exactly the N tokens that follow the operation name, no fewer and no more:
\* none of them is dispatched on, and the next parse step dispatches on the
\* (N+1)-th token after the name.  In create_image_ops_cli.
C25_ExactlyArityConsumed ==
    entry = "cli" =>
        \A d \in disp :
            Constructed(d) =>
                LET n == OperationId_takes_number_of_arguments(NamedBy(entry, input[d]))
                IN  /\ StepAt(d).pos = d + n
                    /\ \A k \in (d + 1)..(d + n) : k \notin disp
                    /\ d = Max(disp) => pos = d + n
                    /\ d < Max(disp) => d + n + 1 \in disp

\* `--resize 1 1 --flip-horizontal`: the flag after the two arguments is decoded.
C25_Witness ==
    /\ entry = "cli"
    /\ pc = "done"
    /\ input = <<"--resize", "1", "1", "--flip-horizontal">>
    /\ disp = { 1, 4 }
    /\ ret.tag = "Ok"
    /\ Len(ret.program) = 2

\* A non-empty statement whose first word is no known operation name.
UnknownName(stmt) ==
    /\ stmt # ""
    /\ split_ascii_whitespace(stmt) # <<>>
    /\ Head(split_ascii_whitespace(stmt)) \notin OperationId_VARIANTS

\* C26: in create_image_ops_script a non-empty statement whose first word is
\* not a known operation name fails the whole parse with InvalidScriptError
\* carrying the full text of that statement (no statement before it having
\* failed, the first error being the one returned).
C26_UnknownNameFailsScript ==
    (entry = "script" /\ pc = "done") =>
        \A d \in 1..Len(input) :
            (UnknownName(input[d]) /\ \A k \in 1..(d - 1) : ~FailsAt(k))
                => ret = Err(InvalidScriptError(input[d]))

\* `blur 1; flipv 1`
C26_Witness ==
    /\ entry = "script"
    /\ pc = "done"
    /\ input = <<"blur 1", "flipv 1">>
    /\ ret = Err(InvalidScriptError("flipv 1"))

ModifierErrors ==
    { PPTE("InvalidModifierSyntax"), PPTE("InvalidOperationForModifier"),
      PPTE("ModifierArgumentExpected") }

\* The step at d was that of a modifier declaration: it yielded a SetModifier
\* or one of the errors of a declaration.
DeclarationStep(d) ==
    /\ StepAt(d).item.some
    /\ IF StepAt(d).item.ok THEN StepAt(d).item.v.kind = "SetModifier"
       ELSE StepAt(d).item.e \in ModifierErrors

\* C27 as stated: a token starts a modifier declaration exactly when it is
\* the keyword `set`; a token that merely begins with those letters (such as
\* `settings`) is not treated as the start of a declaration.
C27_OnlySetStartsDeclaration ==
    \A d \in disp :
        entry = "prototype" => (DeclarationStep(d) <=> NamedBy(entry, input[d]) = "set")

\* C28: when create_image_ops_script returns, with Ok or with Err, the
\* process-wide toggle SIC_SCRIPT_WORKAROUND_UNQUOTE is unset: the step that
\* returns leaves it unset, and it is unset after a call that ran alone.  For
\* a call that runs alone the toggle is set while the statements of the call
\* are parsed and collected.
C28_ToggleUnsetOnReturn ==
    /\ [][(entry = "script" /\ pc # "done" /\ pc' = "done") => ~env']_vars
    /\ []((entry = "script" /\ other = "idle" /\ pc = "done") => ~env)
    /\ []((entry = "script" /\ other = "idle" /\ pc \in { "run", "collected" }) => env)

\* A call alone that returned the error of its second statement.
C28_Witness ==
    /\ entry = "script"
    /\ other = "idle"
    /\ pc = "done"
    /\ input = <<"blur 1", "blur x">>
    /\ ret.tag = "Err"
    /\ ~env

\* C29 as stated: whenever run returns an error raised before export is
\* called (the image does not load, an image operation fails, the JPEG
\* quality is invalid, the output format or extension is unknown), the output
\* file has been neither created nor truncated.
C29_NoOutputFileOnError ==
    (entry = "run" /\ pc = "done" /\ ret.tag = "Err") => file.is = file.was

\* C30: every name for which Op::is_some holds is handled by Op::from_str
\* (it returns Some), so Parser::next never ends the iteration on a token
\* that names a known operation, and the tokens after an operation that
\* parsed are parsed as well.
C30_KnownNamesHandled ==
    /\ \A name \in Op_variants : Op_from_str(<<>>, 0, name).item.some
    /\ entry = "prototype" =>
          \A d \in disp :
              Op_is_some(next_token(input, d - 1)) =>
                  /\ StepAt(d).item.some
                  /\ (pc = "done" /\ StepAt(d).item.ok /\ StepAt(d).pos < Len(input))
                        => StepAt(d).pos + 1 \in disp

\* `rotate270 invert`: the last variant of Op, and the operation after it.
C30_Witness ==
    /\ entry = "prototype"
    /\ pc = "done"
    /\ input = <<"rotate270", "invert">>
    /\ disp = { 1, 2 }
    /\ ret = Ok(<<Core_Operation("rotate270", <<>>), Core_Operation("invert", <<>>)>>)

====
